---- MODULE Spec2Model ----
(***************************************************************************)
(* Model of src/Dataset/generator.py: the day-by-day GDELT news fetcher    *)
(* fetch_gdelt_finance_news with its retry loop, response decoding,        *)
(* language / relevance / fallback filters, scoring and top-n selection.   *)
(*                                                                         *)
(* Text is modelled as sequences of one-character strings, so substring    *)
(* tests, str.count, str.lower and str.join are computed, not assumed.     *)
(* Dates are day ordinals; timedelta(days=1) is +1.                         *)
(***************************************************************************)
EXTENDS Integers, Sequences, FiniteSets, TLC

\* ---------------------------------------------------------------- bounds
\* last day ordinal a date range may end on (ranges start on StartDay)
MaxDay == 3
\* largest article list handed to the filter/ranker when it is checked on its own
MaxBatch == 3
\* largest article list handed to the relevance tests and the scoring
MaxRelevanceBatch == 2
\* largest top_n tried besides the default
MaxTopN == 2
\* the per-day request counter is exact below this value and saturates at it
MaxRequests == 5

\* the longest enumerated text handed to a normalizer
MaxRawLen == 5

\* the calendar days of a year of the driver
DaysPerYear == 3

\* ------------------------------------------------------ program constants
\* retries = 3 (line 99)
InitialRetries == 3
\* top_n=5 default argument (line 45)
DefaultTopN == 5
\* first day of the range, datetime.strptime(start_date, ...) (line 78)
StartDay == 1

impact_keywords ==
    << <<"e", "a", "r", "n", "i", "n", "g", "s">>,
       <<"p", "r", "o", "f", "i", "t">>,
       <<"l", "o", "s", "s">>,
       <<"r", "e", "v", "e", "n", "u", "e">>,
       <<"g", "u", "i", "d", "a", "n", "c", "e">>,
       <<"d", "i", "v", "i", "d", "e", "n", "d">>,
       <<"i", "p", "o">>,
       <<"l", "a", "w", "s", "u", "i", "t">>,
       <<"m", "e", "r", "g", "e", "r">>,
       <<"a", "c", "q", "u", "i", "s", "i", "t", "i", "o", "n">>,
       <<"p", "a", "r", "t", "n", "e", "r", "s", "h", "i", "p">>,
       <<"r", "e", "g", "u", "l", "a", "t", "i", "o", "n">>,
       <<"f", "i", "n", "e">>,
       <<"r", "e", "c", "a", "l", "l">>,
       <<"d", "a", "t", "a", " ", "b", "r", "e", "a", "c", "h">>,
       <<"a", "n", "a", "l", "y", "s", "t", " ", "u", "p", "g", "r", "a", "d", "e">>,
       <<"a", "n", "a", "l", "y", "s", "t", " ", "d", "o", "w", "n", "g", "r", "a", "d", "e">>,
       <<"s", "t", "o", "c", "k", " ", "b", "u", "y", "b", "a", "c", "k">> >>

finance_keywords ==
    << <<"f", "i", "n", "a", "n", "c", "e">>,
       <<"m", "a", "r", "k", "e", "t">>,
       <<"s", "h", "a", "r", "e", "s">>,
       <<"i", "n", "v", "e", "s", "t", "m", "e", "n", "t">>,
       <<"s", "t", "o", "c", "k">>,
       <<"e", "c", "o", "n", "o", "m", "y">>,
       <<"i", "p", "o">>,
       <<"t", "r", "a", "d", "i", "n", "g">>,
       <<"f", "u", "n", "d">>,
       <<"e", "a", "r", "n", "i", "n", "g", "s">>,
       <<"r", "e", "v", "e", "n", "u", "e">>,
       <<"p", "r", "o", "f", "i", "t">>,
       <<"d", "i", "v", "i", "d", "e", "n", "d">>,
       <<"v", "a", "l", "u", "a", "t", "i", "o", "n">>,
       <<"f", "o", "r", "e", "c", "a", "s", "t">>,
       <<"g", "u", "i", "d", "a", "n", "c", "e">> >>

\* the literals "stock" and "shares" of line 68
kw_stock == <<"s", "t", "o", "c", "k">>
kw_shares == <<"s", "h", "a", "r", "e", "s">>
\* the language tags accepted on line 116
lang_en == <<"e", "n">>
lang_english == <<"e", "n", "g", "l", "i", "s", "h">>
\* the separators of lines 65/121 and 126
SPACE == <<" ">>
HEADLINE_SEP == <<" ", "|", " ">>
\* START_YEAR and END_YEAR of the driver (lines 153-154)
START_YEAR == 2021
END_YEAR == 2024
\* TICKER and COMPANY_NAME of the driver (lines 151-152)
TICKER == "V"
COMPANY_NAME == "VISA Inc."

\* ------------------------------------------------------------ str methods
UpperChars == <<"A","B","C","D","E","F","G","H","I","J","K","L","M",
                "N","O","P","Q","R","S","T","U","V","W","X","Y","Z">>
LowerChars == <<"a","b","c","d","e","f","g","h","i","j","k","l","m",
                "n","o","p","q","r","s","t","u","v","w","x","y","z">>

\* the lower-case form of every upper-case letter
LowerOf ==
    [c \in {UpperChars[i] : i \in 1..26} |->
        LowerChars[CHOOSE i \in 1..26 : UpperChars[i] = c]]

\* str.lower() on one character
LowerChar(c) == IF c \in DOMAIN LowerOf THEN LowerOf[c] ELSE c

\* str.lower()
Lower(s) == [i \in 1..Len(s) |-> LowerChar(s[i])]

\* Python's `sub in text` on strings
Contains(sub, text) ==
    \E i \in 0..(Len(text) - Len(sub)) : SubSeq(text, i + 1, i + Len(sub)) = sub

RECURSIVE CountFrom(_, _, _)
CountFrom(text, sub, i) ==
    IF i + Len(sub) - 1 > Len(text) THEN 0
    ELSE IF SubSeq(text, i, i + Len(sub) - 1) = sub
         THEN 1 + CountFrom(text, sub, i + Len(sub))
         ELSE CountFrom(text, sub, i + 1)

\* str.count(sub): non-overlapping occurrences, scanning left to right
Count(text, sub) ==
    IF sub = <<>> THEN Len(text) + 1 ELSE CountFrom(text, sub, 1)

RECURSIVE Join(_, _)
\* sep.join(parts)
Join(sep, parts) ==
    IF parts = <<>> THEN <<>>
    ELSE IF Len(parts) = 1 THEN parts[1]
    ELSE parts[1] \o sep \o Join(sep, Tail(parts))

\* ------------------------------------------------------- article records
\* A JSON field of an article: the key is absent, its value is null, or it
\* is a string.
Absent == [k |-> "absent", v |-> <<>>]
Null == [k |-> "null", v |-> <<>>]
Str(s) == [k |-> "str", v |-> s]

\* dict.get(key, ""): the default only replaces an absent key, not a null
GetOrEmpty(f) == IF f.k = "absent" THEN Str(<<>>) ELSE f

\* Python truthiness of dict.get(key): None and "" are falsy
Truthy(f) == f.k = "str" /\ f.v # <<>>

\* (x or ""), for x a string or None
OrEmpty(f) == IF Truthy(f) THEN f.v ELSE <<>>

Article(t, sd, sn, l) == [title |-> t, seendoc |-> sd, snippet |-> sn, language |-> l]

\* -------------------------------------------- relevance filter and ranker
\* any(kw.lower() in text for kw in keywords)
AnyKeywordIn(keywords, text) ==
    \E i \in 1..Len(keywords) : Contains(Lower(keywords[i]), text)

\* title + " " + summary of is_stock_relevant (lines 63-65)
relevant_text(article) ==
    LET title == Lower(OrEmpty(article.title))
        summary == Lower(IF Truthy(article.seendoc) THEN article.seendoc.v
                         ELSE OrEmpty(article.snippet))
    IN  title \o SPACE \o summary

\* a relevance test that accepts either a company keyword or an impact term
is_stock_relevant_either(article, keywords) ==
    LET text == relevant_text(article)
    IN  \/ AnyKeywordIn(keywords, text)
        \/ AnyKeywordIn(impact_keywords, text)
        \/ Contains(kw_stock, text)
        \/ Contains(kw_shares, text)

\* is_stock_relevant (lines 62-68)
is_stock_relevant(article, keywords) ==
    LET text == relevant_text(article)
    IN  IF ~AnyKeywordIn(keywords, text) THEN FALSE
        ELSE \/ AnyKeywordIn(impact_keywords, text)
             \/ Contains(kw_stock, text)
             \/ Contains(kw_shares, text)

\* a.get("language", "").lower() raises AttributeError on a null tag (line 116)
language_raises(article) == article.language.k = "null"

\* a.get("language", "").lower() in ["en", "english"] (line 116)
is_english(article) ==
    Lower(GetOrEmpty(article.language).v) \in {lang_en, lang_english}

\* a.get("title", "") + " " raises TypeError on a null title; the expression
\* sits inside the generator over company_keywords, so it is only evaluated
\* when there is at least one keyword (lines 121-122)
fallback_raises(article, keywords) ==
    keywords # <<>> /\ article.title.k = "null"

\* the fallback test of lines 121-122
fallback_match(article, keywords) ==
    AnyKeywordIn(keywords,
        Lower(GetOrEmpty(article.title).v \o SPACE \o OrEmpty(article.snippet)))

\* article.get("title", "").lower() raises AttributeError on a null title (line 71)
score_raises(article) == article.title.k = "null"

RECURSIVE SumCounts(_, _, _)
SumCounts(title, keywords, i) ==
    IF i > Len(keywords) THEN 0
    ELSE Count(title, Lower(keywords[i])) + SumCounts(title, keywords, i + 1)

\* a score that also counts the keywords of the summary
score_article_with_summary(article) ==
    SumCounts(relevant_text(article), finance_keywords, 1)

\* score_article (lines 70-72)
score_article(article) ==
    SumCounts(Lower(GetOrEmpty(article.title).v), finance_keywords, 1)

\* Articles are identified by their position in the response's list, as the
\* Python lists hold references to the same dict objects.
Indices(articles) == [i \in 1..Len(articles) |-> i]

\* eng_articles (line 116)
eng_articles(articles) ==
    SelectSeq(Indices(articles), LAMBDA i : is_english(articles[i]))

\* relevant_articles before the fallback (line 117)
primary_articles(articles, keywords) ==
    SelectSeq(eng_articles(articles),
              LAMBDA i : is_stock_relevant(articles[i], keywords))

\* the fallback list (lines 119-123)
fallback_articles(articles, keywords) ==
    SelectSeq(eng_articles(articles),
              LAMBDA i : fallback_match(articles[i], keywords))

\* relevant_articles after lines 117-123
relevant_articles(articles, keywords) ==
    IF primary_articles(articles, keywords) = <<>>
    THEN fallback_articles(articles, keywords)
    ELSE primary_articles(articles, keywords)

RECURSIVE InsertByScoreUnstable(_, _, _)
\* an insertion that lets a later article overtake an earlier one of equal score
InsertByScoreUnstable(articles, sorted, x) ==
    IF sorted = <<>> THEN <<x>>
    ELSE IF score_article(articles[Head(sorted)]) > score_article(articles[x])
         THEN <<Head(sorted)>> \o InsertByScoreUnstable(articles, Tail(sorted), x)
         ELSE <<x>> \o sorted

RECURSIVE InsertByScore(_, _, _)
\* place x behind every element whose score is not lower than its own
InsertByScore(articles, sorted, x) ==
    IF sorted = <<>> THEN <<x>>
    ELSE IF score_article(articles[Head(sorted)]) >= score_article(articles[x])
         THEN <<Head(sorted)>> \o InsertByScore(articles, Tail(sorted), x)
         ELSE <<x>> \o sorted

RECURSIVE SortedByScore(_, _)
\* sorted(xs, key=score_article, reverse=True): descending and stable
SortedByScore(articles, xs) ==
    IF xs = <<>> THEN <<>>
    ELSE InsertByScore(articles,
                       SortedByScore(articles, SubSeq(xs, 1, Len(xs) - 1)),
                       xs[Len(xs)])

\* xs[:n] for n >= 0
Truncate(xs, n) == SubSeq(xs, 1, IF n < Len(xs) THEN n ELSE Len(xs))

\* top_articles (line 124)
select_top(articles, keywords, n) ==
    Truncate(SortedByScore(articles, relevant_articles(articles, keywords)), n)

\* " | ".join(art.get("title", "") for art in top_articles) (line 126)
headlines_of(articles, top) ==
    Join(HEADLINE_SEP, [i \in 1..Len(top) |-> GetOrEmpty(articles[top[i]].title).v])

\* ------------------------------------------------------- provider inputs
T_earn == <<"V", "i", "s", "a", " ", "e", "a", "r", "n", "i", "n", "g", "s">>
T_stock == <<"V", "i", "s", "a", " ", "s", "t", "o", "c", "k", " ", "s", "h", "a", "r", "e", "s">>
T_plain == <<"V", "i", "s", "a", " ", "p", "i", "c", "n", "i", "c">>
T_profit == <<"V", "i", "s", "a", " ", "p", "r", "o", "f", "i", "t">>
T_update == <<"U", "p", "d", "a", "t", "e">>
S_loss == <<"v", "i", "s", "a", " ", "l", "o", "s", "s">>
S_fine == <<"V", "i", "s", "a", " ", "f", "i", "n", "e">>
S_market == <<"V", "i", "s", "a", " ", "m", "a", "r", "k", "e", "t">>
S_funds == <<"f", "u", "n", "d", " ", "v", "a", "l", "u", "a", "t", "i", "o", "n">>
Visa == <<"V", "i", "s", "a">>
VisaInc == <<"V", "i", "s", "a", " ", "I", "n", "c">>
AlKelly == <<"A", "l", " ", "K", "e", "l", "l", "y">>

\* company keyword, impact keyword in the title, language "en"; score 1
a_earn == Article(Str(T_earn), Absent, Absent, Str(<<"e", "n">>))
\* company keyword, "stock" and "shares" in the title, language "English"; score 2
a_stock == Article(Str(T_stock), Absent, Null, Str(<<"E", "n", "g", "l", "i", "s", "h">>))
\* company keyword only: fails the primary test, passes the fallback; score 0
a_plain == Article(Str(T_plain), Absent, Absent, Str(<<"e", "n">>))
\* company keyword and impact keyword, language "EN"; score 1
a_profit == Article(Str(T_profit), Absent, Absent, Str(<<"E", "N">>))
\* not English
a_fr == Article(Str(T_profit), Absent, Absent, Str(<<"f", "r">>))
\* "language": null
a_nulllang == Article(Str(T_earn), Absent, Absent, Null)
\* "title": null, relevant through its snippet
a_nulltitle == Article(Null, Absent, Str(S_loss), Str(<<"e", "n">>))
\* relevant only through its "seendoc" field
a_seendoc == Article(Str(T_update), Str(S_fine), Absent, Str(<<"e", "n">>))
\* a company keyword only in its "seendoc" field and no impact term
a_market == Article(Str(T_update), Str(S_market), Absent, Str(<<"e", "n">>))
\* the title of a_plain, with finance vocabulary in its snippet only
a_funds == Article(Str(T_plain), Absent, Str(S_funds), Str(<<"e", "n">>))

\* the article lists the provider may return during a fetch run: an empty
\* list, one relevant article, one that only the fallback keeps, two relevant
\* ones that ranking reorders, a relevant one behind a fallback-only one, a
\* foreign-language one, a null language tag, a null title
ProviderBatches ==
    { <<>>, <<a_earn>>, <<a_plain>>, <<a_earn, a_stock>>, <<a_plain, a_earn>>,
      <<a_fr>>, <<a_nulllang>>, <<a_nulltitle>> }

\* article records the filter/ranker is checked on
FilterArticles ==
    {a_earn, a_stock, a_plain, a_profit, a_fr, a_nulllang, a_nulltitle, a_seendoc}

\* article records the relevance tests and the scoring are checked on
RelevanceArticles == FilterArticles \cup {a_market, a_funds}

\* lists of at most n records drawn from S
Batches(S, n) == UNION {[1..k -> S] : k \in 0..n}

\* What one requests.get can produce (lines 102-115):
\*   rate_limit     a body containing "Please limit requests"
\*   network_fault  requests.RequestException raised by the call
\*   plaintext      a body that is not JSON at all
\*   malformed      a truncated / malformed JSON body
\*   array          a JSON array
\*   no_articles    a JSON object without the "articles" key
\*   articles       a JSON object with an "articles" list
BodyKinds ==
    {"rate_limit", "network_fault", "plaintext", "malformed", "array", "no_articles"}

Responses ==
    {[kind |-> k, articles |-> <<>>] : k \in BodyKinds}
    \cup {[kind |-> "articles", articles |-> b] : b \in ProviderBatches}

NoResponse == [kind |-> "none", articles |-> <<>>]

\* company_keywords arguments tried
KeywordLists == {<<Visa>>, <<VisaInc, AlKelly>>, <<>>}

\* top_n arguments tried on the filter/ranker
TopNs == (0..MaxTopN) \cup {DefaultTopN}

\* arguments of the fetch runs
FetchKeywordLists == {<<Visa>>, <<VisaInc, AlKelly>>}
FetchTopNs == {1, DefaultTopN}

\* ------------------------------------------------------------------ state
VARIABLES
    pc,               \* position in fetch_gdelt_finance_news
    company_keywords, \* argument
    top_n,            \* argument
    current_date,     \* the day pointer (line 78, 141)
    end_date_dt,      \* line 79
    retries,          \* per-day retry budget (line 99)
    success,          \* line 98
    response,         \* what the last requests.get produced (line 102)
    top_articles,     \* the last selection computed (line 124), as positions
                      \* in response.articles
    all_results,      \* the accumulator (line 76)
    requests,         \* requests issued for the current day (saturating)
    rate_limited,     \* rate-limit responses seen for the current day
    delays,           \* inter-day sleeps taken so far (line 140)
    backoffs,         \* backoff sleeps taken for the current day (lines 105,
                      \* 137; saturating)
    raw_text,         \* the string handed to a normalizer
    cleaned_company_name, \* lines 85-86
    cleaned_keywords, \* what clean_keywords returned (lines 156-163)
    year,             \* the driver's loop variable (line 179)
    stock_data,       \* line 184
    news_df,          \* line 185
    combined_df,      \* line 188
    file              \* the lines of OUTPUT_FILENAME

\* the variables of fetch_gdelt_finance_news other than pc
fetch_vars == <<company_keywords, top_n, current_date, end_date_dt, retries,
                success, response, top_articles, all_results, requests,
                rate_limited, delays, backoffs>>

\* the variables of the two normalizers
norm_vars == <<raw_text, cleaned_company_name, cleaned_keywords>>

\* the variables of the driver
driver_vars == <<year, stock_data, news_df, combined_df, file>>

vars == <<pc, fetch_vars, norm_vars, driver_vars>>

\* an inter-day sleep that is not taken
inter_day_delay_skipped(n) == n

\* time.sleep(10) before the day pointer advances (line 140)
inter_day_delay(n) == n + 1

\* time.sleep(10) before a retry (lines 105 and 137)
backoff_wait(n) == IF n < MaxRequests THEN n + 1 ELSE n

\* a day pointer that skips a day
next_date_skipping(d) == d + 2

\* timedelta(days=1) (line 82)
next_date(d) == d + 1

\* the loop test with an off-by-one budget check
retry_loop_off_by_one(s, r) == IF ~s /\ r >= 0 THEN "request" ELSE "delay"

\* `while not success and retries > 0` (line 100)
retry_loop(s, r) == IF ~s /\ r > 0 THEN "request" ELSE "delay"

\* a rate-limit branch that charges two units of budget
decrement_twice(r) == r - 2

\* retries -= 1 (line 106)
decrement(r) == r - 1

\* data.get("articles", []) (line 115)
decoded_articles(r) == IF r.kind = "articles" THEN r.articles ELSE <<>>

\* the row of lines 127-132
news_row(d, headlines) ==
    [Date |-> d, Headlines |-> headlines, Ticker |-> TICKER, Company |-> COMPANY_NAME]

\* an append that forgets the `if top_articles` test
append_row_unconditional(rows, d, articles, top) ==
    Append(rows, news_row(d, headlines_of(articles, top)))

\* lines 125-132: append a row only for a non-empty selection
append_row(rows, d, articles, top) ==
    IF top # <<>> THEN Append(rows, news_row(d, headlines_of(articles, top)))
    ELSE rows

\* an exception that neither `except` clause of lines 111 and 135 catches:
\* AttributeError on a JSON array (line 115), on a null language (line 116),
\* on a null title (line 71); TypeError on a null title (line 121)
processing_raises(r, keywords) ==
    \/ r.kind = "array"
    \/ /\ r.kind = "articles"
       /\ \/ \E i \in 1..Len(r.articles) : language_raises(r.articles[i])
          \/ /\ primary_articles(r.articles, keywords) = <<>>
             /\ \E i \in 1..Len(r.articles) :
                    /\ is_english(r.articles[i])
                    /\ fallback_raises(r.articles[i], keywords)
          \/ LET rel == relevant_articles(r.articles, keywords)
             IN  \E j \in 1..Len(rel) : score_raises(r.articles[rel[j]])

\* fetch_gdelt_finance_news has not been called
FetchIdle ==
    /\ company_keywords = <<>>
    /\ top_n = DefaultTopN
    /\ current_date = StartDay
    /\ end_date_dt = StartDay
    /\ retries = InitialRetries
    /\ success = FALSE
    /\ response = NoResponse
    /\ top_articles = <<>>
    /\ all_results = <<>>
    /\ requests = 0
    /\ rate_limited = 0
    /\ delays = 0
    /\ backoffs = 0

\* the normalizers have not run
NormIdle ==
    /\ raw_text = <<>>
    /\ cleaned_company_name = <<>>
    /\ cleaned_keywords = <<>>

\* the driver has not run
DriverIdle ==
    /\ year = START_YEAR
    /\ stock_data = <<>>
    /\ news_df = <<>>
    /\ combined_df = <<>>
    /\ file = <<>>

Init ==
    /\ pc = "loop"
    /\ company_keywords \in FetchKeywordLists
    /\ top_n \in FetchTopNs
    /\ current_date = StartDay
    /\ end_date_dt \in (StartDay - 1)..MaxDay
    /\ retries = InitialRetries
    /\ success = FALSE
    /\ response = NoResponse
    /\ top_articles = <<>>
    /\ all_results = <<>>
    /\ requests = 0
    /\ rate_limited = 0
    /\ delays = 0
    /\ backoffs = 0
    /\ NormIdle
    /\ DriverIdle

\* a day that starts with whatever budget the previous day left
StartOfDay_budget_carried ==
    /\ pc = "loop"
    /\ current_date <= end_date_dt
    /\ success' = FALSE
    /\ retries' = retries
    /\ requests' = 0
    /\ rate_limited' = 0
    /\ pc' = retry_loop(success', retries')
    /\ UNCHANGED <<company_keywords, top_n, current_date, end_date_dt, response,
                   top_articles, all_results>>
    /\ backoffs' = 0
    /\ UNCHANGED <<delays, norm_vars, driver_vars>>

\* lines 81-99: the range is not exhausted, start the day's state machine
StartOfDay ==
    /\ pc = "loop"
    /\ current_date <= end_date_dt
    /\ success' = FALSE
    /\ retries' = InitialRetries
    /\ requests' = 0
    /\ rate_limited' = 0
    /\ pc' = retry_loop(success', retries')
    /\ UNCHANGED <<company_keywords, top_n, current_date, end_date_dt, response,
                   top_articles, all_results>>
    /\ backoffs' = 0
    /\ UNCHANGED <<delays, norm_vars, driver_vars>>

\* lines 81, 143-145: the day pointer is past the end date
Finish ==
    /\ pc = "loop"
    /\ current_date > end_date_dt
    /\ pc' = "done"
    /\ UNCHANGED <<company_keywords, top_n, current_date, end_date_dt, retries,
                   success, response, top_articles, all_results, requests,
                   rate_limited>>
    /\ UNCHANGED <<delays, backoffs, norm_vars, driver_vars>>

\* line 102: one request, answered by the provider in any of its ways
Request ==
    /\ pc = "request"
    /\ \E r \in Responses : response' = r
    /\ requests' = IF requests < MaxRequests THEN requests + 1 ELSE requests
    /\ pc' = "handle"
    /\ UNCHANGED <<company_keywords, top_n, current_date, end_date_dt, retries,
                   success, top_articles, all_results, rate_limited>>
    /\ UNCHANGED <<delays, backoffs, norm_vars, driver_vars>>

\* lines 103-107: rate-limit notice
RateLimited ==
    /\ pc = "handle"
    /\ response.kind = "rate_limit"
    /\ retries' = decrement(retries)
    /\ rate_limited' = rate_limited + 1
    /\ pc' = retry_loop(success, retries')
    /\ UNCHANGED <<company_keywords, top_n, current_date, end_date_dt, success,
                   response, top_articles, all_results, requests>>
    /\ backoffs' = backoff_wait(backoffs)
    /\ UNCHANGED <<delays, norm_vars, driver_vars>>

\* lines 135-137: requests.RequestException; the budget is left alone
NetworkError ==
    /\ pc = "handle"
    /\ response.kind = "network_fault"
    /\ pc' = retry_loop(success, retries)
    /\ UNCHANGED <<company_keywords, top_n, current_date, end_date_dt, retries,
                   success, response, top_articles, all_results, requests,
                   rate_limited>>
    /\ backoffs' = backoff_wait(backoffs)
    /\ UNCHANGED <<delays, norm_vars, driver_vars>>

\* lines 109-113: response.json() raises json.JSONDecodeError, break
NonJson ==
    /\ pc = "handle"
    /\ response.kind \in {"plaintext", "malformed"}
    /\ pc' = "delay"
    /\ UNCHANGED <<company_keywords, top_n, current_date, end_date_dt, retries,
                   success, response, top_articles, all_results, requests,
                   rate_limited>>
    /\ UNCHANGED <<delays, backoffs, norm_vars, driver_vars>>

\* lines 115-133: filter, rank, select, append, success
Decoded ==
    /\ pc = "handle"
    /\ response.kind \in {"no_articles", "articles"}
    /\ ~processing_raises(response, company_keywords)
    /\ top_articles' = select_top(decoded_articles(response), company_keywords, top_n)
    /\ all_results' = append_row(all_results, current_date,
                                 decoded_articles(response), top_articles')
    /\ success' = TRUE
    /\ pc' = retry_loop(success', retries)
    /\ UNCHANGED <<company_keywords, top_n, current_date, end_date_dt, retries,
                   response, requests, rate_limited>>
    /\ UNCHANGED <<delays, backoffs, norm_vars, driver_vars>>

\* lines 115-126: an exception no handler catches leaves the function
Propagate ==
    /\ pc = "handle"
    /\ processing_raises(response, company_keywords)
    /\ pc' = "raised"
    /\ UNCHANGED <<company_keywords, top_n, current_date, end_date_dt, retries,
                   success, response, top_articles, all_results, requests,
                   rate_limited>>
    /\ UNCHANGED <<delays, backoffs, norm_vars, driver_vars>>

\* lines 139-141: inter-day delay, then advance the day pointer
NextDay ==
    /\ pc = "delay"
    /\ current_date' = next_date(current_date)
    /\ pc' = "loop"
    /\ UNCHANGED <<company_keywords, top_n, end_date_dt, retries, success,
                   response, top_articles, all_results, requests, rate_limited>>
    /\ delays' = inter_day_delay(delays)
    /\ UNCHANGED <<backoffs, norm_vars, driver_vars>>

Next ==
    \/ StartOfDay
    \/ Finish
    \/ Request
    \/ RateLimited
    \/ NetworkError
    \/ NonJson
    \/ Decoded
    \/ Propagate
    \/ NextDay

Spec == Init /\ [][Next]_vars

\* ------------------------------------------- the filter/ranker on its own
FilterInit ==
    /\ pc = "handle"
    /\ company_keywords \in KeywordLists
    /\ top_n \in TopNs
    /\ current_date = StartDay
    /\ end_date_dt = StartDay
    /\ retries = InitialRetries
    /\ success = FALSE
    /\ response \in {[kind |-> "articles", articles |-> b] :
                        b \in Batches(FilterArticles, MaxBatch)}
    /\ top_articles = <<>>
    /\ all_results = <<>>
    /\ requests = 1
    /\ rate_limited = 0
    /\ delays = 0
    /\ backoffs = 0
    /\ NormIdle
    /\ DriverIdle

FilterNext ==
    \/ Decoded
    \/ Propagate

FilterSpec == FilterInit /\ [][FilterNext]_vars

\* ------------------------- the relevance tests and the scoring on their own
RelevanceInit ==
    /\ pc = "handle"
    /\ company_keywords \in KeywordLists
    /\ top_n \in TopNs
    /\ current_date = StartDay
    /\ end_date_dt = StartDay
    /\ retries = InitialRetries
    /\ success = FALSE
    /\ response \in {[kind |-> "articles", articles |-> b] :
                        b \in Batches(RelevanceArticles, MaxRelevanceBatch)}
    /\ top_articles = <<>>
    /\ all_results = <<>>
    /\ requests = 1
    /\ rate_limited = 0
    /\ delays = 0
    /\ backoffs = 0
    /\ NormIdle
    /\ DriverIdle

RelevanceSpec == RelevanceInit /\ [][FilterNext]_vars

\* ------------------------------------------------------- the normalizers
\* the characters the pattern [^A-Za-z0-9\s] leaves in place, the space
\* standing for the whitespace class
Digits == {"0", "1", "2", "3", "4", "5", "6", "7", "8", "9"}
KeptChars ==
    {UpperChars[i] : i \in 1..Len(UpperChars)}
        \cup {LowerChars[i] : i \in 1..Len(LowerChars)}
        \cup Digits \cup {" "}

\* re.sub(r'[^A-Za-z0-9\s]', '', s)
IsKept(c) == c \in KeptChars
remove_other_chars(s) == SelectSeq(s, IsKept)

RECURSIVE lstrip(_)
\* the text without its leading whitespace
lstrip(s) ==
    IF s # <<>> /\ Head(s) = " " THEN lstrip(Tail(s)) ELSE s

RECURSIVE rstrip(_)
\* the text without its trailing whitespace
rstrip(s) ==
    IF s # <<>> /\ s[Len(s)] = " " THEN rstrip(SubSeq(s, 1, Len(s) - 1)) ELSE s

\* str.strip()
strip(s) == rstrip(lstrip(s))

RECURSIVE word_length(_)
\* the length of the run of non-whitespace characters that starts s
word_length(s) ==
    IF s = <<>> \/ Head(s) = " " THEN 0 ELSE 1 + word_length(Tail(s))

RECURSIVE split(_)
\* str.split(): the maximal runs of non-whitespace characters
split(s) ==
    LET t == lstrip(s)
        n == word_length(t)
    IN  IF t = <<>> THEN <<>>
        ELSE <<SubSeq(t, 1, n)>> \o split(SubSeq(t, n + 1, Len(t)))

RECURSIVE replace(_, _, _)
\* str.replace(old, new) for a one-character old
replace(s, old, new) ==
    IF s = <<>> THEN <<>>
    ELSE (IF Head(s) = old THEN new ELSE <<Head(s)>>) \o replace(Tail(s), old, new)

\* len(w) >= 3
IsLongWord(w) == Len(w) >= 3

\* lines 85-86: the query term made from the company name
clean_company_name(company_name) ==
    Join(SPACE, SelectSeq(split(strip(remove_other_chars(company_name))), IsLongWord))

\* lines 159-160: one keyword with "." dropped, "&" spelled out, every other
\* character outside the pattern removed, and the ends stripped
cleaned_kw(kw) ==
    strip(remove_other_chars(replace(replace(kw, ".", <<>>), "&", <<"a", "n", "d">>)))

\* line 161: any(len(word) >= 3 for word in cleaned_kw.split())
has_long_word(text) ==
    \E i \in 1..Len(split(text)) : IsLongWord(split(text)[i])

RECURSIVE clean_keywords(_)
\* lines 156-163
clean_keywords(keywords) ==
    IF keywords = <<>> THEN <<>>
    ELSE (IF has_long_word(cleaned_kw(Head(keywords)))
          THEN <<cleaned_kw(Head(keywords))>>
          ELSE <<>>) \o clean_keywords(Tail(keywords))

\* the characters the enumerated raw texts are made of
RawChars == {"a", "7", " ", ".", "&"}

\* texts of the driver: COMPANY_NAME (line 152) and some of its keywords
\* (lines 165-174)
RawVisaInc == <<"V", "I", "S", "A", " ", "I", "n", "c", ".">>
RawV == <<"V">>
RawB2B == <<"V", "i", "s", "a", " ", "B", "2", "B">>
RawTapToPay ==
    <<"V", "i", "s", "a", " ", "T", "a", "p", " ", "t", "o", " ", "P", "a", "y">>
DriverTexts == {RawVisaInc, RawV, Visa, AlKelly, RawB2B, RawTapToPay}

\* every text over RawChars of at most n characters
TextsUpTo(n) == UNION {[1..k -> RawChars] : k \in 0..n}

\* the texts handed to the normalizers
RawTexts == TextsUpTo(MaxRawLen) \cup DriverTexts

NormInit ==
    /\ pc = "normalize"
    /\ raw_text \in RawTexts
    /\ cleaned_company_name = <<>>
    /\ cleaned_keywords = <<>>
    /\ FetchIdle
    /\ DriverIdle

\* lines 85-86 applied to raw_text
CleanCompanyName ==
    /\ pc = "normalize"
    /\ cleaned_company_name' = clean_company_name(raw_text)
    /\ pc' = "name_cleaned"
    /\ UNCHANGED <<raw_text, cleaned_keywords>>
    /\ UNCHANGED <<fetch_vars, driver_vars>>

\* clean_keywords (lines 156-163) applied to the one-keyword list of raw_text
CleanKeywords ==
    /\ pc = "normalize"
    /\ cleaned_keywords' = clean_keywords(<<raw_text>>)
    /\ pc' = "keywords_cleaned"
    /\ UNCHANGED <<raw_text, cleaned_company_name>>
    /\ UNCHANGED <<fetch_vars, driver_vars>>

NormNext == CleanCompanyName \/ CleanKeywords

NormSpec == NormInit /\ [][NormNext]_vars

\* ------------------------------------------------------------ the driver
\* the bar of day d of year y as fetch_stock_data returns it (lines 23-41);
\* Close stands for the price and indicator columns
price_bar(y, d) ==
    [Date |-> <<y, d>>, Close |-> d, Ticker |-> TICKER, Company |-> COMPANY_NAME]

\* the price series of year y over the trading days `days`, oldest first
price_series(y, days) == [i \in 1..Len(days) |-> price_bar(y, days[i])]

\* the trading days of a year: every day, or every day but the first
TradingCalendars ==
    {[i \in 1..DaysPerYear |-> i], [i \in 1..(DaysPerYear - 1) |-> i + 1]}

\* the headlines found for day d
headlines_of_day(d) == IF d % 2 = 1 THEN T_earn ELSE T_stock

\* the news rows of the first k days of year y, one per day, oldest first,
\* as fetch_gdelt_finance_news returns them (lines 125-132, 143)
news_frame(y, k) == [i \in 1..k |-> news_row(<<y, i>>, headlines_of_day(i))]

\* for how many leading days of a year news was found
NewsLengths == {0, 1, DaysPerYear - 1, DaysPerYear}

\* the rows of `right` with the key (Date, Ticker, Company) of `bar`
matches(bar, right) ==
    LET same_key(r) ==
            r.Date = bar.Date /\ r.Ticker = bar.Ticker /\ r.Company = bar.Company
    IN  SelectSeq(right, same_key)

\* a row of the merged frame: the bar's columns and a Headlines cell
merged_row(bar, headlines) ==
    [Date |-> bar.Date, Close |-> bar.Close, Ticker |-> bar.Ticker,
     Company |-> bar.Company, Headlines |-> headlines]

RECURSIVE merge_inner(_, _)
\* a join that drops the bars without news
merge_inner(left, right) ==
    IF left = <<>> THEN <<>>
    ELSE LET ms == matches(Head(left), right)
         IN  [i \in 1..Len(ms) |-> merged_row(Head(left), Str(ms[i].Headlines))]
                \o merge_inner(Tail(left), right)

RECURSIVE merge(_, _)
\* pd.merge(left, right, on=["Date", "Ticker", "Company"], how="left") (line
\* 188): the left rows in their order, each once per matching right row, or
\* once with a null Headlines when none matches
merge(left, right) ==
    IF left = <<>> THEN <<>>
    ELSE LET ms == matches(Head(left), right)
         IN  (IF ms = <<>>
              THEN <<merged_row(Head(left), Null)>>
              ELSE [i \in 1..Len(ms) |-> merged_row(Head(left), Str(ms[i].Headlines))])
                \o merge(Tail(left), right)

\* a line of the output file; the header line names the columns, which the
\* fields of `row` stand for
header_line ==
    [kind |-> "header",
     row |-> [Date |-> <<0, 0>>, Close |-> 0, Ticker |-> "", Company |-> "",
              Headlines |-> Null]]
row_line(r) == [kind |-> "row", row |-> r]

\* the data lines of a frame
row_lines(df) == [i \in 1..Len(df) |-> row_line(df[i])]

\* a first write that appends like the later ones
to_csv_appending(existing, df, first) ==
    existing \o (IF first THEN <<header_line>> ELSE <<>>) \o row_lines(df)

\* lines 190-193: the first year's to_csv replaces the file and writes the
\* header, the later ones append the rows alone
to_csv(existing, df, first) ==
    IF first THEN <<header_line>> \o row_lines(df)
    ELSE existing \o row_lines(df)

\* what OUTPUT_FILENAME holds before the run: nothing, or an earlier run's
\* header and row
InitialFiles ==
    {<<>>, <<header_line, row_line(merged_row(price_bar(START_YEAR - 1, 1), Null))>>}

DriverInit ==
    /\ pc = "year_loop"
    /\ year = START_YEAR
    /\ stock_data = <<>>
    /\ news_df = <<>>
    /\ combined_df = <<>>
    /\ file \in InitialFiles
    /\ FetchIdle
    /\ NormIdle

\* lines 179-185: the year's price series and news rows are fetched
FetchYear ==
    /\ pc = "year_loop"
    /\ year <= END_YEAR
    /\ \E days \in TradingCalendars : \E k \in NewsLengths :
          /\ stock_data' = price_series(year, days)
          /\ news_df' = news_frame(year, k)
    /\ pc' = "merge"
    /\ UNCHANGED <<year, combined_df, file>>
    /\ UNCHANGED <<fetch_vars, norm_vars>>

\* lines 184-185: a fetch raises and the exception leaves the loop
FetchYearRaises ==
    /\ pc = "year_loop"
    /\ year <= END_YEAR
    /\ pc' = "raised"
    /\ UNCHANGED <<driver_vars, fetch_vars, norm_vars>>

\* line 188
MergeYear ==
    /\ pc = "merge"
    /\ combined_df' = merge(stock_data, news_df)
    /\ pc' = "write"
    /\ UNCHANGED <<year, stock_data, news_df, file>>
    /\ UNCHANGED <<fetch_vars, norm_vars>>

\* lines 190-196 and the loop's step to the next year
WriteYear ==
    /\ pc = "write"
    /\ file' = to_csv(file, combined_df, year = START_YEAR)
    /\ year' = year + 1
    /\ pc' = "year_loop"
    /\ UNCHANGED <<stock_data, news_df, combined_df>>
    /\ UNCHANGED <<fetch_vars, norm_vars>>

\* line 179: the range is exhausted
DriverDone ==
    /\ pc = "year_loop"
    /\ year > END_YEAR
    /\ pc' = "driver_done"
    /\ UNCHANGED <<driver_vars, fetch_vars, norm_vars>>

DriverNext ==
    \/ FetchYear
    \/ FetchYearRaises
    \/ MergeYear
    \/ WriteYear
    \/ DriverDone

DriverSpec == DriverInit /\ [][DriverNext]_vars

\* ================================================================ claims
\* some row of the accumulator carries date d
HasRow(d) == \E i \in 1..Len(all_results) : all_results[i].Date = d

\* the number of rows of the accumulator that carry date d
RowCount(d) == Cardinality({i \in 1..Len(all_results) : all_results[i].Date = d})

\* C1: fetch_gdelt_finance_news terminates because transient faults are
\* retried only up to the fixed bounded count: whatever the provider answers,
\* no day issues more than the initial request and InitialRetries retries,
\* after which the day is abandoned and the day pointer advances.
C1_BoundedRequestsPerDay == requests <= InitialRetries + 1

\* C2: when a day needed exactly two requests, the first raising a network
\* fault and the second decoding into a selection, that day has exactly one
\* row and its retry budget was decremented once, from 3 to 2.
C2_NetworkFaultDecrementsBudget ==
    (/\ pc = "delay"
     /\ success
     /\ requests = 2
     /\ rate_limited = 0
     /\ top_articles # <<>>)
    => (RowCount(current_date) = 1 /\ retries = InitialRetries - 1)

\* C3: the budget starts at 3 and loses one per rate-limit response; a request
\* is only (re-)issued while budget remains; a day abandoned with the budget
\* at 0 has no row; a day rate-limited on every request issues at most 3
\* requests and has no row.
C3_RateLimitBudget ==
    /\ retries = InitialRetries - rate_limited
    /\ retries >= 0
    /\ (pc \in {"request", "handle"} => retries > 0 /\ ~success)
    /\ (pc = "delay" /\ retries = 0 /\ ~success => ~HasRow(current_date))
    /\ (pc \in {"request", "handle", "delay"} /\ rate_limited = requests
            => requests <= 3 /\ ~HasRow(current_date))

\* C3 witness: a day rate-limited on each of its three requests, abandoned
C3_Witness ==
    /\ pc = "delay"
    /\ rate_limited = 3
    /\ requests = 3
    /\ retries = 0
    /\ ~HasRow(current_date)

\* a day that was abandoned having seen nothing but rate-limit notices
AbandonedByRateLimit ==
    /\ pc = "delay"
    /\ ~success
    /\ response.kind = "rate_limit"
    /\ requests > 0
    /\ rate_limited = requests

\* C4 (as stated): a day answered only by rate-limit notices is abandoned
\* after the initial request and 3 re-issued ones, 4 requests in all, with no
\* row.
C4_FourRequestsConsumed ==
    AbandonedByRateLimit => (requests = 4 /\ ~HasRow(current_date))

\* C4 (amended): a day answered only by rate-limit notices is abandoned after
\* exactly 3 requests, the initial one and 2 re-issued ones, with the budget
\* at 0 and no row; a fourth notice is never requested.
C4_AbandonedAfterThreeRequests ==
    AbandonedByRateLimit
    => (requests = 3 /\ retries = 0 /\ ~HasRow(current_date))

\* C4 witness: the day pointer moved on after such a day
C4_Witness ==
    /\ pc = "loop"
    /\ ~success
    /\ response.kind = "rate_limit"
    /\ requests = 3
    /\ rate_limited = 3
    /\ current_date > StartDay
    /\ ~HasRow(current_date - 1)

\* C5: no provider response makes an exception leave
\* fetch_gdelt_finance_news.
C5_NoExceptionPropagates == pc # "raised"

\* a response that is not a rate-limit notice and carries no article list
ContentFault(r) == r.kind \in {"plaintext", "malformed", "array", "no_articles"}

\* C6: handling a content fault (undecodable body, or a decoded structure
\* without an article list) ends the day without another request, appends no
\* row, leaves the retry budget alone and lets the run go on to the delay
\* before the next day.
C6_ContentFaultTerminal ==
    [][(pc = "handle" /\ ContentFault(response))
        => (/\ pc' = "delay"
            /\ retries' = retries
            /\ requests' = requests
            /\ all_results' = all_results)]_vars

\* rows carry strictly increasing dates inside the range, none beyond the
\* day pointer, and none for a day that is not yet complete
C7_RowsOrdered ==
    /\ \A i \in 1..Len(all_results) :
          /\ all_results[i].Date >= StartDay
          /\ all_results[i].Date <= end_date_dt
          /\ all_results[i].Date <= current_date
    /\ \A i \in 1..Len(all_results) : \A j \in 1..Len(all_results) :
          i < j => all_results[i].Date < all_results[j].Date
    /\ (pc \in {"loop", "request", "handle"} => ~HasRow(current_date))

\* the day pointer moves only at the end of a day, by exactly one day
C7_DayAdvance ==
    \/ current_date' = current_date
    \/ (pc = "delay" /\ pc' = "loop" /\ current_date' = current_date + 1)

\* C7: in every reachable state the rows have strictly increasing dates
\* within [start_date, end_date], at most one per date, and every iteration
\* advances the day pointer by exactly one day.
C7_OneRowPerDayInOrder == []C7_RowsOrdered /\ [][C7_DayAdvance]_vars

\* C7 witness: a finished two-day run with a row for each day
C7_Witness ==
    /\ pc = "done"
    /\ Len(all_results) = 2
    /\ all_results[1].Date = StartDay
    /\ all_results[2].Date = StartDay + 1

\* the title of the j-th selected article, as line 126 reads it
SelectedTitle(j) == GetOrEmpty(response.articles[top_articles[j]].title).v

RECURSIVE TitleOffset(_)
\* where the j-th title starts in the joined headline text
TitleOffset(j) ==
    IF j = 1 THEN 0
    ELSE TitleOffset(j - 1) + Len(SelectedTitle(j - 1)) + 3

\* h is the selected titles, in selection order, separated by " | "
IsJoinedHeadlines(h) ==
    LET n == Len(top_articles)
    IN  /\ n > 0
        /\ Len(h) = TitleOffset(n) + Len(SelectedTitle(n))
        /\ \A j \in 1..n :
              /\ SubSeq(h, TitleOffset(j) + 1, TitleOffset(j) + Len(SelectedTitle(j)))
                    = SelectedTitle(j)
              /\ j < n =>
                    SubSeq(h, TitleOffset(j) + Len(SelectedTitle(j)) + 1,
                              TitleOffset(j) + Len(SelectedTitle(j)) + 3)
                        = <<" ", "|", " ">>

\* C8: a day has a row if and only if its request was decoded successfully
\* and the selection after filtering and ranking is non-empty; that row is
\* the last one appended and its Headlines are the selected titles joined by
\* " | " in selection order.  No row exists for a day still being requested
\* or for a day whose processing raised.
C8_RowIffSelection ==
    /\ (pc \in {"request", "handle", "raised"} => ~HasRow(current_date))
    /\ (pc = "delay" =>
          LET sel == select_top(decoded_articles(response), company_keywords, top_n)
              last == all_results[Len(all_results)]
          IN  /\ HasRow(current_date) <=> (success /\ sel # <<>>)
              /\ success => top_articles = sel
              /\ HasRow(current_date) =>
                    /\ last.Date = current_date
                    /\ last.Ticker = TICKER
                    /\ last.Company = COMPANY_NAME
                    /\ IsJoinedHeadlines(last.Headlines))

\* C8 witness: a two-day run, day 1 answered with one English article whose
\* title holds a company keyword and an impact keyword, day 2 with an empty
\* article list; the output is the single day-1 row with that title.
C8_Witness ==
    /\ pc = "done"
    /\ end_date_dt = StartDay + 1
    /\ response = [kind |-> "articles", articles |-> <<>>]
    /\ all_results = <<news_row(StartDay, T_earn)>>

\* C9: after a batch was filtered, every English article of it that passes
\* the primary relevance test also passes the fallback company-keyword test,
\* so the fallback's result contains the primary's.
C9_FallbackContainsPrimary ==
    pc = "delay" =>
        \A i \in 1..Len(response.articles) :
            (/\ is_english(response.articles[i])
             /\ is_stock_relevant(response.articles[i], company_keywords))
            => fallback_match(response.articles[i], company_keywords)

\* the elements of a sequence
Range(s) == {s[i] : i \in 1..Len(s)}

\* C10: the selection has at most top_n articles, all of them surviving
\* articles and none twice, in non-increasing score order, equal scores in
\* their original relative order, and no surviving article left out scores
\* higher than a selected one.
C10_SelectionRanked ==
    pc = "delay" /\ response.kind = "articles" =>
        LET arts == response.articles
            rel == relevant_articles(arts, company_keywords)
            top == top_articles
        IN  /\ Len(top) <= top_n
            /\ Range(top) \subseteq Range(rel)
            /\ \A j \in 1..Len(top) : \A k \in 1..Len(top) :
                  j < k =>
                    /\ top[j] # top[k]
                    /\ score_article(arts[top[j]]) >= score_article(arts[top[k]])
                    /\ score_article(arts[top[j]]) = score_article(arts[top[k]])
                          => top[j] < top[k]
            /\ \A x \in Range(rel) \ Range(top) : \A j \in 1..Len(top) :
                  /\ score_article(arts[top[j]]) >= score_article(arts[x])
                  /\ score_article(arts[top[j]]) = score_article(arts[x])
                        => top[j] < x

\* C10 witness: three surviving articles with scores 1, 2, 1 and top_n = 2;
\* the selection is the score-2 article, then the first of the score-1 pair
C10_Witness ==
    /\ pc = "delay"
    /\ top_n = 2
    /\ response.articles = <<a_earn, a_stock, a_profit>>
    /\ Len(relevant_articles(response.articles, company_keywords)) = 3
    /\ top_articles = <<2, 1>>

\* kw occurs in text at position p
OccursAt(kw, text, p) ==
    /\ p + Len(kw) - 1 <= Len(text)
    /\ \A q \in 1..Len(kw) : text[p + q - 1] = kw[q]

\* kw occurs somewhere in text, compared without regard to case
Occurs(kw, text) ==
    \E p \in 1..Len(text) : OccursAt(Lower(kw), Lower(text), p)

\* the text of a field, the empty text when it is absent or null
TextOf(f) == IF f.k = "str" THEN f.v ELSE <<>>

\* title + " " + summary, the summary being the seendoc field when it has
\* text and the snippet otherwise
TitleAndSummary(a) ==
    TextOf(a.title) \o <<" ">>
        \o (IF TextOf(a.seendoc) # <<>> THEN TextOf(a.seendoc) ELSE TextOf(a.snippet))

\* some company keyword occurs in the article's title+summary
MentionsCompany(a) ==
    \E i \in 1..Len(company_keywords) : Occurs(company_keywords[i], TitleAndSummary(a))

\* some impact keyword, or "stock" or "shares", occurs in the title+summary
MentionsImpact(a) ==
    \/ \E i \in 1..Len(impact_keywords) : Occurs(impact_keywords[i], TitleAndSummary(a))
    \/ Occurs(<<"s", "t", "o", "c", "k">>, TitleAndSummary(a))
    \/ Occurs(<<"s", "h", "a", "r", "e", "s">>, TitleAndSummary(a))

\* the language tag is "en" or "english" in any letter case
TaggedEnglish(a) ==
    /\ a.language.k = "str"
    /\ Lower(a.language.v) \in {<<"e", "n">>, <<"e", "n", "g", "l", "i", "s", "h">>}

\* positions of the English articles of the response
EnglishPositions ==
    {i \in 1..Len(response.articles) : TaggedEnglish(response.articles[i])}

\* positions of the English articles that pass the primary test as specified
PrimaryPositions ==
    {i \in EnglishPositions :
        MentionsCompany(response.articles[i]) /\ MentionsImpact(response.articles[i])}

\* a filtered batch whose selection was not cut by top_n
FilteredUncut ==
    /\ pc = "delay"
    /\ response.kind = "articles"
    /\ top_n >= Len(response.articles)

\* C12: the fallback is used exactly when the primary filter yields nothing;
\* the candidates are then all English articles whose title+summary holds a
\* company keyword, and otherwise exactly the articles passing the primary
\* test.
C12_FallbackExactlyWhenPrimaryEmpty ==
    FilteredUncut =>
        Range(top_articles) =
            IF PrimaryPositions = {}
            THEN {i \in EnglishPositions : MentionsCompany(response.articles[i])}
            ELSE PrimaryPositions

\* C13: the primary filter keeps an article if and only if its lower-cased
\* title+summary holds a company keyword and (an impact keyword, "stock" or
\* "shares"); an article without a company keyword is never kept by it.
C13_PrimaryFilter ==
    pc = "delay" /\ response.kind = "articles" =>
        /\ Range(primary_articles(response.articles, company_keywords)) = PrimaryPositions
        /\ \A i \in 1..Len(response.articles) :
              is_stock_relevant(response.articles[i], company_keywords)
                <=> (MentionsCompany(response.articles[i])
                     /\ MentionsImpact(response.articles[i]))
        /\ (FilteredUncut /\ PrimaryPositions # {}
                => Range(top_articles) = PrimaryPositions)

\* C13 witness: an article with a company keyword but no impact term stands
\* before a fully relevant one; only the second is kept
C13_Witness ==
    /\ FilteredUncut
    /\ response.articles = <<a_plain, a_earn>>
    /\ company_keywords = <<Visa>>
    /\ top_articles = <<2>>

\* C14: handling an article list keeps exactly the articles tagged "en" or
\* "english" (any case); an article whose tag is absent or null is dropped
\* and the others are still processed, so no non-English article is selected.
C14_LanguageFilter ==
    [][(/\ pc = "handle"
        /\ response.kind = "articles"
        /\ \A i \in 1..Len(response.articles) : response.articles[i].title.k # "null")
        => (/\ pc' = "delay"
            /\ Range(top_articles') \subseteq EnglishPositions)]_vars

RECURSIVE OccurrenceScore(_, _)
\* the number of places of the lower-cased title at which one of the first
\* n finance keywords (all lower-case) occurs
OccurrenceScore(title, n) ==
    IF n = 0 THEN 0
    ELSE Cardinality({p \in 1..Len(title) : OccursAt(finance_keywords[n], title, p)})
         + OccurrenceScore(title, n - 1)

\* C15: the score of an article is the number of occurrences of the finance
\* keywords in its title alone, so articles with the same title score the
\* same whatever their summaries, and the selection is ordered by title
\* score with equal titles in their original order.
C15_ScoreFromTitleOnly ==
    pc = "delay" /\ response.kind = "articles" =>
        LET arts == response.articles
            titled == {i \in 1..Len(arts) : arts[i].title.k # "null"}
            ts(i) == OccurrenceScore(Lower(TextOf(arts[i].title)), Len(finance_keywords))
        IN  /\ \A i \in titled : score_article(arts[i]) = ts(i)
            /\ \A i \in titled : \A j \in titled :
                  arts[i].title = arts[j].title
                    => score_article(arts[i]) = score_article(arts[j])
            /\ \A j \in 1..Len(top_articles) : \A k \in 1..Len(top_articles) :
                  (j < k /\ arts[top_articles[j]].title = arts[top_articles[k]].title)
                    => top_articles[j] < top_articles[k]

\* C15 witness: two selected articles share their title, only the second
\* has finance vocabulary in its snippet, and it stays second
C15_Witness ==
    /\ pc = "delay"
    /\ response.articles = <<a_plain, a_funds>>
    /\ company_keywords = <<Visa>>
    /\ top_n = DefaultTopN
    /\ top_articles = <<1, 2>>

\* C17: every day starts its first request with the full budget of 3,
\* whatever the previous days consumed.
C17_BudgetResetEachDay ==
    /\ (pc = "request" /\ requests = 0 => retries = InitialRetries)
    /\ (pc \in {"request", "handle"} => retries + rate_limited = InitialRetries)

\* C17 witness: the day after a day that exhausted its budget on rate-limit
\* notices is about to issue its first request with the budget back at 3
C17_Witness ==
    /\ pc = "request"
    /\ requests = 0
    /\ current_date > StartDay
    /\ response.kind = "rate_limit"
    /\ retries = InitialRetries

\* C16: the day pointer only advances together with one inter-day delay,
\* however the day ended, so every request of a day is issued after as many
\* inter-day delays as days have passed; backoff waits are counted apart and
\* an inter-day delay is never one of them.
C16_DelayBeforeEveryAdvance ==
    /\ [](delays = current_date - StartDay)
    /\ [][/\ current_date' # current_date
                => (pc = "delay" /\ delays' = delays + 1 /\ backoffs' = backoffs)
          /\ backoffs' > backoffs
                => (pc = "handle" /\ retries' <= retries /\ delays' = delays)
          /\ pc' = "handle" => delays = current_date - StartDay]_vars

\* C16 witness: the second day's request is answered after one inter-day
\* delay, the first day having ended on a content fault without any backoff
C16_Witness ==
    /\ pc = "handle"
    /\ current_date = StartDay + 1
    /\ requests = 1
    /\ delays = 1
    /\ backoffs = 0
    /\ ~HasRow(StartDay)
\* the text holds nothing but letters, digits and spaces
OnlyLettersDigitsSpaces(text) == \A i \in 1..Len(text) : text[i] \in KeptChars

\* no two spaces of the text are adjacent
SingleSpaces(text) ==
    \A i \in 1..(Len(text) - 1) : ~(text[i] = " " /\ text[i + 1] = " ")

\* every token of the text, a maximal run without a space, has at least
\* three characters
TokensAtLeastThree(text) ==
    \A i \in 1..Len(text) :
        (text[i] # " " /\ (i = 1 \/ text[i - 1] = " "))
        => (/\ i + 2 <= Len(text)
            /\ text[i + 1] # " "
            /\ text[i + 2] # " ")

\* the text is in the normal form the normalizers are specified to produce
Normalized(text) ==
    /\ OnlyLettersDigitsSpaces(text)
    /\ SingleSpaces(text)
    /\ TokensAtLeastThree(text)

\* the company-name cleaning produces normalized text and is idempotent
NameNormalized ==
    pc = "name_cleaned" =>
        /\ Normalized(cleaned_company_name)
        /\ clean_company_name(cleaned_company_name) = cleaned_company_name

\* clean_keywords produces normalized keywords and is idempotent
KeywordsNormalized ==
    pc = "keywords_cleaned" =>
        /\ \A i \in 1..Len(cleaned_keywords) : Normalized(cleaned_keywords[i])
        /\ clean_keywords(cleaned_keywords) = cleaned_keywords

\* C11: for every input, the company-name cleaning and clean_keywords yield
\* text of letters, digits and single spaces only, in which every token has
\* at least 3 characters, and normalizing the output again returns it
\* unchanged.
C11_NormalizedAndIdempotent == NameNormalized /\ KeywordsNormalized
\* the years of the data rows of the file, in file order
RowYears == [i \in 1..(Len(file) - 1) |-> file[i + 1].row.Date[1]]

\* once a year has been written, the file is one header line followed by
\* data rows of the years written so far, in increasing year order, every
\* written year having its block
C18_FileShape ==
    /\ year \in START_YEAR..(END_YEAR + 1)
    /\ (pc = "driver_done" => year = END_YEAR + 1)
    /\ (year = START_YEAR => file \in InitialFiles)
    /\ (year > START_YEAR =>
          /\ file # <<>>
          /\ file[1] = header_line
          /\ \A i \in 2..Len(file) : file[i].kind = "row"
          /\ \A i \in 1..Len(RowYears) : RowYears[i] \in START_YEAR..(year - 1)
          /\ \A i \in 1..Len(RowYears) : \A j \in 1..Len(RowYears) :
                i < j => RowYears[i] <= RowYears[j]
          /\ \A y \in START_YEAR..(year - 1) :
                \E i \in 1..Len(RowYears) : RowYears[i] = y)

\* the file changes only in the write of a year, which happens once per
\* year: the first year's write leaves the header and its block, a later
\* one leaves the earlier content followed by its block
C18_WriteStep ==
    /\ file' # file => pc = "write"
    /\ year' # year => (pc = "write" /\ year' = year + 1)
    /\ pc = "write" =>
          /\ year' = year + 1
          /\ year = START_YEAR => file' = <<header_line>> \o row_lines(combined_df)
          /\ year > START_YEAR => file' = file \o row_lines(combined_df)

\* C18: over the year loop the file receives one block per year in
\* increasing year order; the first year's write replaces the earlier
\* content and carries the only header, every later block is appended
\* without one, so the finished file is one header line followed by the
\* yearly blocks.
C18_OneBlockPerYear == []C18_FileShape /\ [][C18_WriteStep]_vars

\* C18 witness: the loop finished all four years and the file holds one
\* header followed by rows of each year
C18_Witness ==
    /\ pc = "driver_done"
    /\ file[1] = header_line
    /\ Cardinality({i \in 1..Len(file) : file[i].kind = "header"}) = 1
    /\ {RowYears[i] : i \in 1..Len(RowYears)} = START_YEAR..END_YEAR

\* some news row carries the date of bar i
HasNews(i) == \E j \in 1..Len(news_df) : news_df[j].Date = stock_data[i].Date

\* C19: the news rows having at most one row per (Date, Ticker, Company),
\* the merged block has exactly one row per price bar, in the order of the
\* price series, carrying that bar's columns; its Headlines is the day's
\* news when there is a news row of that date and null otherwise, and a
\* news row whose date has no price bar appears nowhere in the block.
C19_LeftJoinKeepsPriceSeries ==
    pc = "write" =>
        /\ \A j \in 1..Len(news_df) : \A k \in 1..Len(news_df) :
              news_df[j].Date = news_df[k].Date => j = k
        /\ Len(combined_df) = Len(stock_data)
        /\ \A i \in 1..Len(stock_data) :
              /\ combined_df[i].Date = stock_data[i].Date
              /\ combined_df[i].Close = stock_data[i].Close
              /\ combined_df[i].Ticker = stock_data[i].Ticker
              /\ combined_df[i].Company = stock_data[i].Company
              /\ HasNews(i) =>
                    \E j \in 1..Len(news_df) :
                        /\ news_df[j].Date = stock_data[i].Date
                        /\ combined_df[i].Headlines = Str(news_df[j].Headlines)
              /\ ~HasNews(i) => combined_df[i].Headlines = Null
        /\ \A j \in 1..Len(news_df) :
              (\A i \in 1..Len(stock_data) : stock_data[i].Date # news_df[j].Date)
              => \A i \in 1..Len(combined_df) : combined_df[i].Date # news_df[j].Date

\* C19 witness: a merged year with news on a day without a bar, a bar with
\* news and a bar without
C19_Witness ==
    /\ pc = "write"
    /\ \E j \in 1..Len(news_df) :
          \A i \in 1..Len(stock_data) : stock_data[i].Date # news_df[j].Date
    /\ \E i \in 1..Len(combined_df) : combined_df[i].Headlines = Null
    /\ \E i \in 1..Len(combined_df) : combined_df[i].Headlines.k = "str"
    /\ Len(combined_df) = Len(stock_data)
====
